---- MODULE Spec2Model ----
(***************************************************************************)
(* Model of Additionnals/python_stat_compiler.py: a linear pipeline        *)
(*   load_rows -> derive -> write_markdown -> write_csv                    *)
(* that summarises benchmark JSON files into a Markdown and a CSV table.   *)
(*                                                                         *)
(* JSON numbers are modelled as integers (int(v) and float(v) of an        *)
(* integer keep its value).  The float n of fmt_bytes, n0 / 1024^j, is     *)
(* carried as n0 and j; a float holding us / 1000 is the pair              *)
(* [whole |-> us \div 1000, frac |-> us % 1000].  A JSON object key that   *)
(* is a '/'-separated path is the sequence of its segments.  A file path   *)
(* is the sequence of its character codes.                                 *)
(***************************************************************************)
EXTENDS Integers, Sequences, FiniteSets, TLC

VARIABLES
    dir,        \* the input directory: path -> file content (never changes)
    todo,       \* load_rows: the sorted paths the for loop has still to visit
    rows,       \* load_rows: rows / main: rows_raw
    stderr,     \* the diagnostic stream: a sequence of messages
    derived,    \* main: the list of Metric Records
    mdFile,     \* the Markdown destination
    csvFile,    \* the CSV destination
    stdout,     \* the standard output stream: a sequence of messages
    pc,         \* main's position
    exitCode,   \* the process's exit status, -1 while it runs
    fmtN,       \* fmt_bytes: the argument of the call under study
    fmtOut      \* fmt_bytes: the string returned, "" before the call

vars == <<dir, todo, rows, stderr, derived, mdFile, csvFile, stdout, pc,
          exitCode, fmtN, fmtOut>>

pipeVars == <<dir, todo, rows, stderr, derived, mdFile, csvFile, stdout, pc,
              exitCode>>

-----------------------------------------------------------------------------
(* Bounds of the model *)

\* the most files the input directory holds
MaxFiles == 3
\* parameter values of the generated raw records range over 1..MaxParam
MaxParam == 2
\* fmt_bytes is applied to every byte count in 0..MaxSmallBytes (and to the
\* values around each unit threshold)
MaxSmallBytes == 40
\* ... and to every threshold value +/- 0..MaxDelta
MaxDelta == 3

-----------------------------------------------------------------------------
(* Generic helpers *)

\* sum(f[k] for k in keys)
RECURSIVE SumOver(_, _)
SumOver(f, keys) ==
    IF keys = {} THEN 0
    ELSE LET k == CHOOSE x \in keys : TRUE
         IN  f[k] + SumOver(f, keys \ {k})

RECURSIVE Pow(_, _)
Pow(b, e) == IF e = 0 THEN 1 ELSE b * Pow(b, e - 1)

\* lexicographic order on sequences of integers (Python's order on tuples of
\* ints and on strings)
RECURSIVE LexLess(_, _)
LexLess(a, b) ==
    IF b = <<>> THEN FALSE
    ELSE IF a = <<>> THEN TRUE
    ELSE IF Head(a) < Head(b) THEN TRUE
    ELSE IF Head(a) > Head(b) THEN FALSE
    ELSE LexLess(Tail(a), Tail(b))

-----------------------------------------------------------------------------
(* fmt_bytes *)

\* the literal 1024 of fmt_bytes
Kibi == 1024

Units == <<"B", "KiB", "MiB", "GiB">>

\* f"{x:.1f}" of the float x = n0 / 1024^e (e >= 1), exact in binary, so the
\* decimal is the round-half-even of 10 * x = (t + rem / 1024) / 1024^(e-1).
\* Computed through n0 \div 1024 so that no intermediate value exceeds 2^31.
FormatOneDecimal(n0, e) ==
    LET hi     == n0 \div Kibi
        lo     == n0 % Kibi
        t      == 10 * hi + (10 * lo) \div Kibi
        rem    == (10 * lo) % Kibi
        E      == Pow(Kibi, e - 1)
        q      == t \div E
        r      == t % E
        up     == IF E = 1
                  THEN 2 * rem > Kibi \/ (2 * rem = Kibi /\ q % 2 = 1)
                  ELSE r > E \div 2
                       \/ (r = E \div 2 /\ (rem # 0 \/ q % 2 = 1))
        tenths == IF up THEN q + 1 ELSE q
    IN  ToString(tenths \div 10) \o "." \o ToString(tenths % 10)

\* one iteration of the for loop of fmt_bytes with unit Units[i], the float n
\* being n0 / 1024^(i-1)
RECURSIVE fmt_loop(_, _)
fmt_loop(n0, i) ==
    IF Units[i] = "GiB" \/ n0 < Pow(Kibi, i)
    THEN IF Units[i] = "B"
         THEN ToString(n0) \o " " \o Units[i]
         ELSE FormatOneDecimal(n0, i) \o " " \o Units[i]
    ELSE fmt_loop(n0, i + 1)

fmt_bytes(n) == fmt_loop(n, 1)

-----------------------------------------------------------------------------
(* Raw records (parsed JSON) *)

\* A JSON value found where a record is expected: a mapping, or anything else
\* (a number, a string, a list ...).  A group of a mapping (Opts, Verdict,
\* TimingsUS, SizesB) is absent, null, a mapping m, or some other value that
\* is true in Python (a non-zero number, a non-empty string or list).
Absent == [kind |-> "absent", m |-> <<>>]
Null == [kind |-> "null", m |-> <<>>]
NonDict == [kind |-> "other", m |-> <<>>]
Dict(f) == [kind |-> "map", m |-> f]
EmptyDict == Dict(<<>>)

Row(top, opts, verdict, timings, sizes) ==
    [kind |-> "map", top |-> top, Opts |-> opts, Verdict |-> verdict,
     TimingsUS |-> timings, SizesB |-> sizes]

\* a list element that is no mapping, e.g. the 7 of [7]
ScalarRow == [kind |-> "scalar"]

\* d.get(name, default) for a group of the record
Get(g, default) == IF g.kind = "absent" THEN default ELSE g

\* x, the "or {}" forgotten
OrEmptyForgotten(x) == x

\* x or {}
OrEmpty(x) ==
    IF x.kind = "null" \/ (x.kind = "map" /\ DOMAIN x.m = {}) THEN EmptyDict
    ELSE x

\* m.get(key, default) for a mapping m
GetKey(m, key, default) == IF key \in DOMAIN m THEN m[key] ELSE default

\* k.startswith(prefix), the trailing "/" of the prefix forgotten
StartsWithNoSlash(k, prefix) ==
    /\ Len(k) >= Len(prefix)
    /\ SubSeq(k, 1, Len(prefix)) = prefix

\* k.startswith(prefix + "/"), k and prefix being sequences of path segments
StartsWith(k, prefix) ==
    /\ Len(k) > Len(prefix)
    /\ SubSeq(k, 1, Len(prefix)) = prefix

FparPrefix == <<"piop", "Fpar">>
WitnessPrefix == <<"piop", "witness">>
FparCoreKey == <<"piop", "Fpar", "core">>
FparNormKey == <<"piop", "Fpar", "linf_chain">>
WitnessMKey == <<"piop", "witness", "linf_chain", "M">>
WitnessDKey == <<"piop", "witness", "linf_chain", "D">>
TotalKey == "__total__"
NormPhaseKey == "buildFparLinfChain"

-----------------------------------------------------------------------------
(* derive *)

\* get_opt preferring the top-level field to the entry of Opts
get_opt_top_first(opts, row, key) ==
    IF key \in DOMAIN row.top THEN row.top[key]
    ELSE IF opts.kind = "map" /\ key \in DOMAIN opts.m THEN opts.m[key]
    ELSE 0

get_opt(opts, row, key) ==
    IF opts.kind = "map" /\ key \in DOMAIN opts.m THEN opts.m[key]
    ELSE GetKey(row.top, key, 0)

\* verdict = row.get("Verdict", {}) or {}, and likewise for the other groups
GroupOrEmpty(g) == OrEmpty(Get(g, EmptyDict)).m

\* total_us as the sum of every value, the aggregate key included
total_us_always_sum(times) == SumOver(times, DOMAIN times)

\* total_us = times.get("__total__"); if total_us is None: sum(times.values())
total_us(times) ==
    IF TotalKey \in DOMAIN times THEN times[TotalKey]
    ELSE SumOver(times, DOMAIN times)

t_norm(times) == GetKey(times, NormPhaseKey, 0)

size_total(sizes) == SumOver(sizes, DOMAIN sizes)

size_fpar_total(sizes) ==
    SumOver(sizes, {k \in DOMAIN sizes : StartsWith(k, FparPrefix)})

size_fpar_core(sizes) == GetKey(sizes, FparCoreKey, 0)

size_fpar_norm(sizes) == GetKey(sizes, FparNormKey, 0)

size_witness_total(sizes) ==
    SumOver(sizes, {k \in DOMAIN sizes : StartsWith(k, WitnessPrefix)})

size_witness_norm(sizes) ==
    GetKey(sizes, WitnessMKey, 0) + GetKey(sizes, WitnessDKey, 0)

\* float(us) / 1000.0
Ms(us) == [whole |-> us \div 1000, frac |-> us % 1000]

\* row.get(...), verdict.get(...), times.get(...) and sizes.get(...) raise
\* AttributeError on a value that is no mapping
DeriveRaises(row) ==
    IF row.kind # "map" THEN TRUE
    ELSE {OrEmpty(Get(row.Verdict, EmptyDict)).kind,
          OrEmpty(Get(row.TimingsUS, EmptyDict)).kind,
          OrEmpty(Get(row.SizesB, EmptyDict)).kind} # {"map"}

derive(row) ==
    LET opts    == Get(row.Opts, EmptyDict)
        verdict == GroupOrEmpty(row.Verdict)
        ok_lin  == GetKey(verdict, "OkLin", FALSE)
        ok_eq4  == GetKey(verdict, "OkEq4", FALSE)
        ok_sum  == GetKey(verdict, "OkSum", FALSE)
        times   == GroupOrEmpty(row.TimingsUS)
        sizes   == GroupOrEmpty(row.SizesB)
    IN  [Ncols  |-> get_opt(opts, row, "NCols"),
         ell    |-> get_opt(opts, row, "Ell"),
         ellp   |-> get_opt(opts, row, "EllPrime"),
         rho    |-> get_opt(opts, row, "Rho"),
         eta    |-> get_opt(opts, row, "Eta"),
         theta  |-> get_opt(opts, row, "Theta"),
         ok_lin |-> ok_lin,
         ok_eq4 |-> ok_eq4,
         ok_sum |-> ok_sum,
         ok_all |-> ok_lin /\ ok_eq4 /\ ok_sum,
         t_total_ms |-> Ms(total_us(times)),
         t_norm_ms  |-> Ms(t_norm(times)),
         size_fpar_core |-> size_fpar_core(sizes),
         size_fpar_norm |-> size_fpar_norm(sizes),
         size_fpar_total |-> size_fpar_total(sizes),
         size_witness_norm |-> size_witness_norm(sizes),
         size_witness_total |-> size_witness_total(sizes),
         size_total_bytes |-> size_total(sizes)]

-----------------------------------------------------------------------------
(* Report renderers *)

\* sep.join(cells)
RECURSIVE Join(_, _)
Join(cells, sep) ==
    IF cells = <<>> THEN ""
    ELSE IF Len(cells) = 1 THEN cells[1]
    ELSE cells[1] \o sep \o Join(Tail(cells), sep)

\* the key of both sorted(...) calls
SortKey(r) == <<r.Ncols, r.ell, r.ellp, r.rho, r.eta, r.theta>>

\* s with x inserted after every element whose key is not greater than x's
RECURSIVE InsertSorted(_, _)
InsertSorted(s, x) ==
    IF s = <<>> THEN <<x>>
    ELSE IF LexLess(SortKey(x), SortKey(Head(s))) THEN <<x>> \o s
    ELSE <<Head(s)>> \o InsertSorted(Tail(s), x)

\* sorted(rs, key=...): Python's sort is stable
RECURSIVE SortPrefix(_, _)
SortPrefix(rs, n) ==
    IF n = 0 THEN <<>> ELSE InsertSorted(SortPrefix(rs, n - 1), rs[n])

sorted_rows(rs) == SortPrefix(rs, Len(rs))

\* f"{x:.0f}" of the float x = us / 1000.0: round half to even
FormatZeroDecimal(x) ==
    LET up == x.frac > 500 \/ (x.frac = 500 /\ x.whole % 2 = 1)
    IN  ToString(IF up THEN x.whole + 1 ELSE x.whole)

\* the glyphs U+2714 and U+2718
CheckGlyph == "(U+2714)"
CrossGlyph == "(U+2718)"

MdHdr ==
    <<"Ncols", "ell", "ellp", "rho", "eta", "theta",
      "OK", "t_total(ms)", "t_norm(ms)",
      "Fpar(core)", "Fpar(norm)", "Fpar(total)",
      "Wit(norm)", "Wit(total)", "All(sizes)">>

MdRec(r) ==
    <<ToString(r.Ncols), ToString(r.ell), ToString(r.ellp),
      ToString(r.rho), ToString(r.eta), ToString(r.theta),
      IF r.ok_all THEN CheckGlyph ELSE CrossGlyph,
      FormatZeroDecimal(r.t_total_ms), FormatZeroDecimal(r.t_norm_ms),
      fmt_bytes(r.size_fpar_core),
      fmt_bytes(r.size_fpar_norm),
      fmt_bytes(r.size_fpar_total),
      fmt_bytes(r.size_witness_norm),
      fmt_bytes(r.size_witness_total),
      fmt_bytes(r.size_total_bytes)>>

MdLine(cells) == "| " \o Join(cells, " | ") \o " |"

\* write_markdown iterating over rows instead of rows_sorted
md_rows_unsorted(rs) == rs

\* rows_sorted of write_markdown
md_rows_sorted(rs) == sorted_rows(rs)

\* the list lines of write_markdown; the file holds "\n".join(lines)
md_lines(rs) ==
    LET srt == md_rows_sorted(rs)
    IN  <<MdLine(MdHdr), "|" \o Join([i \in 1..Len(MdHdr) |-> "---"], "|") \o "|">>
        \o [i \in 1..Len(srt) |-> MdLine(MdRec(srt[i]))]

CsvHdr ==
    <<"Ncols", "ell", "ellp", "rho", "eta", "theta",
      "ok_lin", "ok_eq4", "ok_sum", "ok_all",
      "t_total_ms", "t_norm_ms",
      "size_fpar_core", "size_fpar_norm", "size_fpar_total",
      "size_witness_norm", "size_witness_total", "size_total_bytes">>

\* [r[k] for k in hdr]
CsvRec(r) == [i \in 1..Len(CsvHdr) |-> r[CsvHdr[i]]]

\* rows_sorted of write_csv
csv_rows_sorted(rs) == sorted_rows(rs)

\* the rows write_csv hands to the csv writer, header first
csv_rows(rs) ==
    LET srt == csv_rows_sorted(rs)
    IN  <<CsvHdr>> \o [i \in 1..Len(srt) |-> CsvRec(srt[i])]

-----------------------------------------------------------------------------
(* The inputs the model ranges over *)

ParamKeys == {"NCols", "Ell", "EllPrime", "Rho", "Eta", "Theta"}
VerdictKeys == {"OkLin", "OkEq4", "OkSum"}
TimingKeys == {TotalKey, NormPhaseKey, "other", "commit"}
SizeKeys ==
    {FparCoreKey, FparNormKey, <<"piop", "Fpar", "merkle">>,
     WitnessMKey, WitnessDKey, <<"piop", "witness", "w1">>,
     <<"pcs", "commit">>, <<"piop", "Fpar">>}

\* every mapping of a subset of keys to one of vals
MapsOver(keys, vals) == UNION {[S -> vals] : S \in SUBSET keys}

\* every mapping of a subset of keys to one same value of vals
ConstMapsOver(keys, vals) ==
    UNION {[S -> {v}] : S \in SUBSET keys, v \in vals}

GroupsOf(maps) == {Absent, Null} \cup {Dict(f) : f \in maps}

\* the example record of the documentation
ExampleOpts ==
    Dict([NCols |-> 4, Ell |-> 2, EllPrime |-> 1, Rho |-> 3, Eta |-> 1,
          Theta |-> 1])
ExampleVerdict == Dict([OkLin |-> TRUE, OkEq4 |-> TRUE, OkSum |-> TRUE])
ExampleTimings == Dict([buildFparLinfChain |-> 2000, other |-> 500])
ExampleSizes ==
    Dict((FparCoreKey :> 100) @@ (FparNormKey :> 50) @@ (WitnessMKey :> 10)
         @@ (WitnessDKey :> 5))
ExampleRow ==
    Row(<<>>, ExampleOpts, ExampleVerdict, ExampleTimings, ExampleSizes)

ParamVals == 1..MaxParam

ParamMaps == ConstMapsOver(ParamKeys, ParamVals)
VerdictMaps == MapsOver(VerdictKeys, BOOLEAN)
TimingMaps == MapsOver(TimingKeys, {0, 500, 2000})
SizeMaps == MapsOver(SizeKeys, {5, 100})
GroupShapes(example) == {Absent, Null, EmptyDict, example}

\* the records of the files of the input directory
RowBig ==
    Row([NCols |-> 8, Ell |-> 1, EllPrime |-> 1, Rho |-> 1, Eta |-> 1,
         Theta |-> 1],
        Absent,
        Dict([OkLin |-> TRUE, OkEq4 |-> FALSE]),
        Dict([__total__ |-> 1500, other |-> 7]),
        Dict((FparCoreKey :> 2048) @@ (<<"pcs", "commit">> :> 1)))
RowTie ==
    Row([NCols |-> 4, Ell |-> 2, EllPrime |-> 1, Rho |-> 3, Eta |-> 1,
         Theta |-> 1],
        Null, Absent, Null, Dict((WitnessMKey :> 7)))
RowSmall ==
    Row([NCols |-> 4, Ell |-> 1, Theta |-> 9], Dict([Ell |-> 1, Rho |-> 5]),
        ExampleVerdict, Absent, Absent)

\* what a file of the directory holds
\* (val: the parsed top-level value of a file that holds a dict or a list)
Malformed == [kind |-> "malformed", val |-> <<>>]   \* open or json.load raises
ScalarFile == [kind |-> "scalar", val |-> <<>>]     \* e.g. 7 or "x"
DictFile(r) == [kind |-> "dict", val |-> r]
ListFile(rs) == [kind |-> "list", val |-> rs]

FileContents ==
    {Malformed, ScalarFile, DictFile(ExampleRow), ListFile(<<>>),
     ListFile(<<RowBig, RowTie, RowSmall>>),
     ListFile(<<ExampleRow, ScalarRow>>)}

\* os.path.join(input_dir, stem + ".json") as character codes
Path(stem) == <<111, 117, 116, 47>> \o stem \o <<46, 106, 115, 111, 110>>

\* out/a.json, out/a-b.json, out/a0.json, out/b.json
Paths == {Path(<<97>>), Path(<<97, 45, 98>>), Path(<<97, 48>>), Path(<<98>>)}

Directories ==
    UNION {[S -> FileContents] :
             S \in {T \in SUBSET Paths : Cardinality(T) <= MaxFiles}}

\* sorted(paths)
RECURSIVE sorted_paths(_)
sorted_paths(ps) ==
    IF ps = {} THEN <<>>
    ELSE LET least == CHOOSE p \in ps : \A q \in ps \ {p} : LexLess(p, q)
         IN  <<least>> \o sorted_paths(ps \ {least})

-----------------------------------------------------------------------------
(* The pipeline: main, load_rows, write_markdown, write_csv *)

Untouched == [state |-> "untouched", content |-> <<>>]

\* what an output file holds after a with-block that opened it and
\* completed (k = Len(content)) or raised while writing (k < Len(content))
Written(content, k) ==
    [state |-> IF k = Len(content) THEN "complete" ELSE "partial",
     content |-> SubSeq(content, 1, k)]

Idle == /\ fmtN = 0 /\ fmtOut = ""

Init ==
    /\ dir \in Directories
    /\ todo = <<>>
    /\ rows = <<>>
    /\ stderr = <<>>
    /\ derived = <<>>
    /\ mdFile = Untouched
    /\ csvFile = Untouched
    /\ stdout = <<>>
    /\ pc = "start"
    /\ exitCode = -1
    /\ Idle

\* load_rows: sorted(glob.glob(...)) and rows = []
LoadStart ==
    /\ pc = "start"
    /\ todo' = sorted_paths(DOMAIN dir)
    /\ rows' = <<>>
    /\ pc' = "load"
    /\ UNCHANGED <<dir, stderr, derived, mdFile, csvFile, stdout, exitCode,
                   fmtN, fmtOut>>

\* what an iteration of the loop of load_rows hands to rows.extend:
\* if isinstance(data, dict): data = [data]
Accepted(file) == IF file.kind = "dict" THEN <<file.val>> ELSE file.val

\* the same iteration without the try/except: the exception leaves load_rows
LoadParseFailureUncaught ==
    /\ pc = "load" /\ todo # <<>>
    /\ dir[Head(todo)].kind = "malformed"
    /\ stderr' = Append(stderr, [tag |-> "load_raised", path |-> Head(todo)])
    /\ exitCode' = 1
    /\ pc' = "done"
    /\ UNCHANGED <<dir, todo, rows, derived, mdFile, csvFile, stdout, fmtN,
                   fmtOut>>

\* an iteration whose open or json.load raises: except Exception
LoadParseFailure ==
    /\ pc = "load" /\ todo # <<>>
    /\ dir[Head(todo)].kind = "malformed"
    /\ stderr' = Append(stderr, [tag |-> "warn_parse", path |-> Head(todo)])
    /\ todo' = Tail(todo)
    /\ UNCHANGED <<dir, rows, derived, mdFile, csvFile, stdout, pc, exitCode,
                   fmtN, fmtOut>>

\* an iteration whose top-level JSON is neither dict nor list: continue
LoadNotListOrDict ==
    /\ pc = "load" /\ todo # <<>>
    /\ dir[Head(todo)].kind = "scalar"
    /\ stderr' = Append(stderr, [tag |-> "warn_shape", path |-> Head(todo)])
    /\ todo' = Tail(todo)
    /\ UNCHANGED <<dir, rows, derived, mdFile, csvFile, stdout, pc, exitCode,
                   fmtN, fmtOut>>

\* an iteration that reaches rows.extend(data)
LoadExtend ==
    /\ pc = "load" /\ todo # <<>>
    /\ dir[Head(todo)].kind \in {"dict", "list"}
    /\ rows' = rows \o Accepted(dir[Head(todo)])
    /\ todo' = Tail(todo)
    /\ UNCHANGED <<dir, stderr, derived, mdFile, csvFile, stdout, pc,
                   exitCode, fmtN, fmtOut>>

\* return rows
LoadReturn ==
    /\ pc = "load" /\ todo = <<>>
    /\ pc' = "check"
    /\ UNCHANGED <<dir, todo, rows, stderr, derived, mdFile, csvFile, stdout,
                   exitCode, fmtN, fmtOut>>

\* an uncaught exception: the traceback goes to stderr and the status is 1
Uncaught(what) ==
    /\ stderr' = Append(stderr, [tag |-> what, path |-> <<>>])
    /\ exitCode' = 1
    /\ pc' = "done"

\* the same branch without sys.exit(1): main goes on with no rows
MainNoRowsGoesOn ==
    /\ pc = "check" /\ rows = <<>>
    /\ stderr' = Append(stderr, [tag |-> "err_no_json", path |-> <<>>])
    /\ pc' = "derive"
    /\ UNCHANGED <<dir, todo, rows, derived, mdFile, csvFile, stdout,
                   exitCode, fmtN, fmtOut>>

\* main: if not rows_raw: print [err]; sys.exit(1)
MainNoRows ==
    /\ pc = "check" /\ rows = <<>>
    /\ stderr' = Append(stderr, [tag |-> "err_no_json", path |-> <<>>])
    /\ exitCode' = 1
    /\ pc' = "done"
    /\ UNCHANGED <<dir, todo, rows, derived, mdFile, csvFile, stdout, fmtN,
                   fmtOut>>

MainHasRows ==
    /\ pc = "check" /\ rows # <<>>
    /\ pc' = "derive"
    /\ UNCHANGED <<dir, todo, rows, stderr, derived, mdFile, csvFile, stdout,
                   exitCode, fmtN, fmtOut>>

\* main: derived = [derive(r) for r in rows_raw]
MainDerive ==
    /\ pc = "derive"
    /\ \A i \in 1..Len(rows) : ~DeriveRaises(rows[i])
    /\ derived' = [i \in 1..Len(rows) |-> derive(rows[i])]
    /\ pc' = "write_md"
    /\ UNCHANGED <<dir, todo, rows, stderr, mdFile, csvFile, stdout,
                   exitCode, fmtN, fmtOut>>

MainDeriveRaises ==
    /\ pc = "derive"
    /\ \E i \in 1..Len(rows) : DeriveRaises(rows[i])
    /\ Uncaught("derive_raised")
    /\ UNCHANGED <<dir, todo, rows, derived, mdFile, csvFile, stdout, fmtN,
                   fmtOut>>

\* the failure to open the Markdown file swallowed: main goes on to write_csv
MdOpenFailsSwallowed ==
    /\ pc = "write_md"
    /\ stderr' = Append(stderr, [tag |-> "md_open_raised", path |-> <<>>])
    /\ pc' = "write_csv"
    /\ UNCHANGED <<dir, todo, rows, derived, mdFile, csvFile, stdout,
                   exitCode, fmtN, fmtOut>>

\* write_markdown, its open(out_path, "w") raising
MdOpenFails ==
    /\ pc = "write_md"
    /\ Uncaught("md_open_raised")
    /\ UNCHANGED <<dir, todo, rows, derived, mdFile, csvFile, stdout, fmtN,
                   fmtOut>>

\* write_markdown, its f.write raising after any part of the text
MdWriteFails ==
    /\ pc = "write_md"
    /\ LET lines == md_lines(derived)
       IN  \E k \in 0..(Len(lines) - 1) : mdFile' = Written(lines, k)
    /\ Uncaught("md_write_raised")
    /\ UNCHANGED <<dir, todo, rows, derived, csvFile, stdout, fmtN, fmtOut>>

\* write_markdown completing and main returning without calling write_csv
MdWrittenThenReturns ==
    /\ pc = "write_md"
    /\ LET lines == md_lines(derived)
       IN  mdFile' = Written(lines, Len(lines))
    /\ stdout' = Append(stdout, "[ok] wrote md")
    /\ exitCode' = 0
    /\ pc' = "done"
    /\ UNCHANGED <<dir, todo, rows, stderr, derived, csvFile, fmtN, fmtOut>>

\* write_markdown completing
MdWritten ==
    /\ pc = "write_md"
    /\ LET lines == md_lines(derived)
       IN  mdFile' = Written(lines, Len(lines))
    /\ stdout' = Append(stdout, "[ok] wrote md")
    /\ pc' = "write_csv"
    /\ UNCHANGED <<dir, todo, rows, stderr, derived, csvFile, exitCode, fmtN,
                   fmtOut>>

\* write_csv, its open(out_path, "w", newline="") raising
CsvOpenFails ==
    /\ pc = "write_csv"
    /\ Uncaught("csv_open_raised")
    /\ UNCHANGED <<dir, todo, rows, derived, mdFile, csvFile, stdout, fmtN,
                   fmtOut>>

\* write_csv, a writerow raising after any number of rows
CsvWriteFails ==
    /\ pc = "write_csv"
    /\ LET table == csv_rows(derived)
       IN  \E k \in 0..(Len(table) - 1) : csvFile' = Written(table, k)
    /\ Uncaught("csv_write_raised")
    /\ UNCHANGED <<dir, todo, rows, derived, mdFile, stdout, fmtN, fmtOut>>

\* write_csv completing, and main returning
CsvWritten ==
    /\ pc = "write_csv"
    /\ LET table == csv_rows(derived)
       IN  csvFile' = Written(table, Len(table))
    /\ stdout' = Append(stdout, "[ok] wrote csv")
    /\ exitCode' = 0
    /\ pc' = "done"
    /\ UNCHANGED <<dir, todo, rows, stderr, derived, mdFile, fmtN, fmtOut>>

Next ==
    \/ LoadStart
    \/ LoadParseFailure
    \/ LoadNotListOrDict
    \/ LoadExtend
    \/ LoadReturn
    \/ MainNoRows
    \/ MainHasRows
    \/ MainDerive
    \/ MainDeriveRaises
    \/ MdOpenFails
    \/ MdWriteFails
    \/ MdWritten
    \/ CsvOpenFails
    \/ CsvWriteFails
    \/ CsvWritten

Spec == Init /\ [][Next]_vars

\* the process is sequential and runs until it exits: no step waits
FairSpec == Spec /\ WF_vars(Next)

-----------------------------------------------------------------------------
(* derive applied to one raw record: the directory holds one file, a
   mapping, and load_rows has returned it *)

InitDeriveOn(r) ==
    /\ dir = (Path(<<97>>) :> (IF r = ScalarRow THEN ListFile(<<r>>)
                               ELSE DictFile(r)))
    /\ rows = <<r>>
    /\ todo = <<>>
    /\ stderr = <<>>
    /\ derived = <<>>
    /\ mdFile = Untouched
    /\ csvFile = Untouched
    /\ stdout = <<>>
    /\ pc = "derive"
    /\ exitCode = -1
    /\ Idle

\* the raw records derive is applied to: each group in turn ranges over all
\* its shapes while the others keep the example's value; every combination
\* of absent, null, empty and present groups occurs; and a group, or the
\* record itself, is no mapping
InitDerive ==
    \/ \E top \in ParamMaps, opts \in GroupsOf(ParamMaps) :
          InitDeriveOn(Row(top, opts, ExampleVerdict, ExampleTimings,
                           ExampleSizes))
    \/ \E v \in GroupsOf(VerdictMaps) :
          InitDeriveOn(Row(<<>>, ExampleOpts, v, ExampleTimings, ExampleSizes))
    \/ \E t \in GroupsOf(TimingMaps) :
          InitDeriveOn(Row(<<>>, ExampleOpts, ExampleVerdict, t, ExampleSizes))
    \/ \E z \in GroupsOf(SizeMaps) :
          InitDeriveOn(Row(<<>>, ExampleOpts, ExampleVerdict, ExampleTimings,
                           z))
    \/ \E top \in {<<>>, [NCols |-> 1, Rho |-> 2]},
           o \in GroupShapes(ExampleOpts), v \in GroupShapes(ExampleVerdict),
           t \in GroupShapes(ExampleTimings), z \in GroupShapes(ExampleSizes) :
          InitDeriveOn(Row(top, o, v, t, z))
    \/ \E r \in {ScalarRow,
                  Row(<<>>, NonDict, ExampleVerdict, ExampleTimings,
                      ExampleSizes),
                  Row([Ell |-> 2], NonDict, Absent, Absent, Absent),
                  Row(<<>>, ExampleOpts, NonDict, ExampleTimings,
                      ExampleSizes),
                  Row(<<>>, ExampleOpts, ExampleVerdict, NonDict,
                      ExampleSizes),
                  Row(<<>>, ExampleOpts, ExampleVerdict, ExampleTimings,
                      NonDict)} :
          InitDeriveOn(r)

NextDerive == MainDerive \/ MainDeriveRaises

SpecDerive == InitDerive /\ [][NextDerive]_vars

-----------------------------------------------------------------------------
(* fmt_bytes applied to one byte count *)

Thresholds == {Pow(Kibi, 1), Pow(Kibi, 2), Pow(Kibi, 3)}

ByteInputs ==
    (0..MaxSmallBytes)
    \cup {t + d : t \in Thresholds, d \in 0..MaxDelta}
    \cup {t - d : t \in Thresholds, d \in 0..MaxDelta}
    \cup {t + t \div 2 + d : t \in Thresholds, d \in 0..MaxDelta}

InitFmt ==
    /\ dir = <<>>
    /\ todo = <<>>
    /\ rows = <<>>
    /\ stderr = <<>>
    /\ derived = <<>>
    /\ mdFile = Untouched
    /\ csvFile = Untouched
    /\ stdout = <<>>
    /\ pc = "fmt_bytes"
    /\ exitCode = -1
    /\ fmtN \in ByteInputs
    /\ fmtOut = ""

FmtCall ==
    /\ pc = "fmt_bytes"
    /\ fmtOut' = fmt_bytes(fmtN)
    /\ pc' = "fmt_returned"
    /\ UNCHANGED <<dir, todo, rows, stderr, derived, mdFile, csvFile, stdout,
                   exitCode, fmtN>>

NextFmt == FmtCall

SpecFmt == InitFmt /\ [][NextFmt]_vars

-----------------------------------------------------------------------------
(* Properties *)

Loaded == pc \notin {"start", "load"}

IoTags ==
    {"md_open_raised", "md_write_raised", "csv_open_raised",
     "csv_write_raised"}

Raised(tags) == \E i \in 1..Len(stderr) : stderr[i].tag \in tags

\* group g is a mapping that holds key
Has(g, key) == g.kind = "map" /\ key \in DOMAIN g.m

\* group g is absent, null or an empty mapping
NoEntries(g) == g.kind \in {"absent", "null"} \/ (g.kind = "map" /\ DOMAIN g.m = {})

MetricFields ==
    {"Ncols", "ell", "ellp", "rho", "eta", "theta", "ok_lin", "ok_eq4",
     "ok_sum", "ok_all", "t_total_ms", "t_norm_ms", "size_fpar_core",
     "size_fpar_norm", "size_fpar_total", "size_witness_norm",
     "size_witness_total", "size_total_bytes"}

\* the Metric Record field of each parameter
FieldOf ==
    [NCols |-> "Ncols", Ell |-> "ell", EllPrime |-> "ellp", Rho |-> "rho",
     Eta |-> "eta", Theta |-> "theta"]

\* a duration of us microseconds, in milliseconds
IsMs(x, us) == x.frac \in 0..999 /\ 1000 * x.whole + x.frac = us

\* C1: when load_rows returns no record (empty directory, or only skipped or
\* empty files), main exits with status 1 and writes neither output file; no
\* run reaches derive, write_markdown or write_csv with an empty rows_raw.
C1_EmptyInputExitsWithoutOutput ==
    (Loaded /\ rows = <<>>) =>
        /\ pc \in {"check", "done"}
        /\ pc = "done" => exitCode = 1
        /\ mdFile = Untouched
        /\ csvFile = Untouched
        /\ stdout = <<>>

C1_Witness ==
    /\ pc = "done" /\ rows = <<>> /\ exitCode = 1
    /\ Cardinality(DOMAIN dir) >= 2
    /\ \E p \in DOMAIN dir : dir[p].kind = "list"
    /\ \E p \in DOMAIN dir : dir[p].kind = "malformed"

C3_Key(t) == SubSeq(t, 1, 6)

\* the Metric Record a row of the CSV file holds
C3_RecordOf(t) ==
    [f \in MetricFields |->
        t[CHOOSE i \in 1..Len(CsvHdr) : CsvHdr[i] = f]]

\* the elements of s whose key is k, in order
C3_WithKey(s, k) == LET Test(t) == C3_Key(t) = k IN SelectSeq(s, Test)

\* C3: the data rows of the CSV file are in non-decreasing lexicographic
\* order of (Ncols, ell, ellp, rho, eta, theta), rows with equal keys keep
\* the order of the input, and the data rows of the Markdown file are the
\* renderings of the CSV rows, in the same order.
C3_BothOutputsStablySorted ==
    LET input == [i \in 1..Len(derived) |-> CsvRec(derived[i])]
        data  == Tail(csvFile.content)
    IN  /\ csvFile.state = "complete" =>
            /\ Len(data) = Len(input)
            /\ \A i, j \in 1..Len(data) :
                  i < j => ~LexLess(C3_Key(data[j]), C3_Key(data[i]))
            /\ \A i \in 1..Len(input) :
                  C3_WithKey(data, C3_Key(input[i]))
                      = C3_WithKey(input, C3_Key(input[i]))
        /\ (csvFile.state = "complete" /\ mdFile.state = "complete") =>
            /\ Len(mdFile.content) = Len(data) + 2
            /\ \A i \in 1..Len(data) :
                  mdFile.content[i + 2] = MdLine(MdRec(C3_RecordOf(data[i])))

C3_Witness ==
    /\ csvFile.state = "complete" /\ mdFile.state = "complete"
    /\ \E i, j \in 1..Len(derived) :
          /\ i < j
          /\ SortKey(derived[i]) = SortKey(derived[j])
          /\ derived[i] # derived[j]
    /\ \E i, j \in 1..Len(derived) :
          i < j /\ LexLess(SortKey(derived[j]), SortKey(derived[i]))

\* the unit the documentation selects for n, as an index of Units
C4_Unit(n) ==
    IF n < Kibi THEN 1
    ELSE IF n < Pow(Kibi, 2) THEN 2
    ELSE IF n < Pow(Kibi, 3) THEN 3
    ELSE 4

\* C4: fmt_bytes(n) shows n scaled to the selected unit (n, n/1024, n/1024^2,
\* n/1024^3), with one decimal for KiB, MiB and GiB and none for B: 0 gives
\* "0 B", 1023 "1023 B", 1024 "1.0 KiB", 1048576 "1.0 MiB", and every
\* n >= 1024^3 is shown in GiB.
C4_FmtBytesShowsScaledValue ==
    pc = "fmt_returned" =>
        /\ fmtOut =
             (IF C4_Unit(fmtN) = 1 THEN ToString(fmtN) \o " B"
              ELSE FormatOneDecimal(fmtN, C4_Unit(fmtN) - 1) \o " "
                       \o Units[C4_Unit(fmtN)])
        /\ fmtN = 0 => fmtOut = "0 B"
        /\ fmtN = 1023 => fmtOut = "1023 B"
        /\ fmtN = 1024 => fmtOut = "1.0 KiB"
        /\ fmtN = 1048576 => fmtOut = "1.0 MiB"

\* C5: each of the six parameters of the Metric Record is the entry of Opts
\* when Opts is a mapping holding the key (whatever the top-level field),
\* otherwise the top-level field of that name, otherwise 0.
C5_ParameterResolution ==
    pc = "write_md" =>
        \A key \in ParamKeys :
            derived[1][FieldOf[key]] =
                (IF Has(rows[1].Opts, key) THEN rows[1].Opts.m[key]
                 ELSE IF key \in DOMAIN rows[1].top THEN rows[1].top[key]
                 ELSE 0)

C5_Witness ==
    /\ pc = "write_md"
    /\ Has(rows[1].Opts, "Ell") /\ "Ell" \in DOMAIN rows[1].top
    /\ rows[1].Opts.m["Ell"] # rows[1].top["Ell"]
    /\ ~Has(rows[1].Opts, "Rho") /\ "Rho" \in DOMAIN rows[1].top
    /\ ~Has(rows[1].Opts, "Eta") /\ "Eta" \notin DOMAIN rows[1].top

\* the paths of the model in sorted order: '-' (45) < '.' (46) < '0' (48)
C6_PathOrder ==
    <<Path(<<97, 45, 98>>), Path(<<97>>), Path(<<97, 48>>), Path(<<98>>)>>

\* the records of the accepted files among C6_PathOrder[i], ..., file order
\* first, then the order within the file
RECURSIVE C6_RecordsFrom(_)
C6_RecordsFrom(i) ==
    IF i > Len(C6_PathOrder) THEN <<>>
    ELSE LET p == C6_PathOrder[i]
         IN  (IF p \notin DOMAIN dir THEN <<>>
              ELSE IF dir[p].kind = "dict" THEN <<dir[p].val>>
              ELSE IF dir[p].kind = "list" THEN dir[p].val
              ELSE <<>>)
             \o C6_RecordsFrom(i + 1)

\* the skipped files among C6_PathOrder[i], ...
RECURSIVE C6_SkippedFrom(_)
C6_SkippedFrom(i) ==
    IF i > Len(C6_PathOrder) THEN <<>>
    ELSE LET p == C6_PathOrder[i]
         IN  (IF p \in DOMAIN dir /\ dir[p].kind \notin {"dict", "list"}
              THEN <<p>> ELSE <<>>)
             \o C6_SkippedFrom(i + 1)

\* C6: load_rows returns the records of the accepted files, in sorted path
\* order and then in-file order; a file that does not parse or holds neither
\* a mapping nor a sequence adds no record and one warning, and the loader
\* never ends the run.
C6_LoadRowsConcatenatesAccepted ==
    /\ pc \in {"start", "load", "check"} => exitCode = -1
    /\ Loaded =>
        /\ rows = C6_RecordsFrom(1)
        /\ LET IsWarning(m) == m.tag \in {"warn_parse", "warn_shape"}
               warned == SelectSeq(stderr, IsWarning)
           IN  [i \in 1..Len(warned) |-> warned[i].path] = C6_SkippedFrom(1)

C6_Witness ==
    /\ pc = "check"
    /\ Len(rows) >= 3
    /\ Cardinality(DOMAIN dir) = 3
    /\ dir[sorted_paths(DOMAIN dir)[2]].kind = "malformed"
    /\ dir[sorted_paths(DOMAIN dir)[1]].kind = "dict"
    /\ dir[sorted_paths(DOMAIN dir)[3]].kind = "list"

\* C7: derive raises on no mapping whose groups are absent, null or
\* mappings, and returns a complete Metric Record in which each absent
\* parameter, duration and size is 0, each absent verdict flag is false and
\* ok_all is the conjunction of ok_lin, ok_eq4 and ok_sum.
C7_DeriveDefaultsMissingFields ==
    LET r == rows[1]
        d == derived[1]
    IN  /\ pc = "done" =>
              \/ r.kind # "map"
              \/ "other" \in {r.Verdict.kind, r.TimingsUS.kind, r.SizesB.kind}
        /\ pc = "write_md" =>
            /\ DOMAIN d = MetricFields
            /\ \A key \in ParamKeys :
                  (~Has(r.Opts, key) /\ key \notin DOMAIN r.top)
                      => d[FieldOf[key]] = 0
            /\ d.ok_lin = (Has(r.Verdict, "OkLin") /\ r.Verdict.m["OkLin"])
            /\ d.ok_eq4 = (Has(r.Verdict, "OkEq4") /\ r.Verdict.m["OkEq4"])
            /\ d.ok_sum = (Has(r.Verdict, "OkSum") /\ r.Verdict.m["OkSum"])
            /\ d.ok_all = (d.ok_lin /\ d.ok_eq4 /\ d.ok_sum)
            /\ ~Has(r.TimingsUS, NormPhaseKey) => IsMs(d.t_norm_ms, 0)
            /\ NoEntries(r.TimingsUS) => IsMs(d.t_total_ms, 0)
            /\ ~Has(r.SizesB, FparCoreKey) => d.size_fpar_core = 0
            /\ ~Has(r.SizesB, FparNormKey) => d.size_fpar_norm = 0
            /\ (~Has(r.SizesB, WitnessMKey) /\ ~Has(r.SizesB, WitnessDKey))
                  => d.size_witness_norm = 0
            /\ NoEntries(r.SizesB) =>
                  /\ d.size_fpar_total = 0
                  /\ d.size_witness_total = 0
                  /\ d.size_total_bytes = 0

C7_Witness ==
    /\ pc = "write_md"
    /\ rows[1].top = <<>>
    /\ rows[1].Opts = Null /\ rows[1].Verdict = Null
    /\ rows[1].TimingsUS = Null /\ rows[1].SizesB = Absent
    /\ derived[1].Ncols = 0 /\ ~derived[1].ok_all
    /\ derived[1].size_total_bytes = 0

\* C8 as stated: a run that ends with a fatal error has written neither the
\* Markdown nor the CSV file.
C8_FatalRunWritesNothing ==
    (pc = "done" /\ exitCode = 1) =>
        /\ mdFile.state # "complete"
        /\ csvFile.state # "complete"

\* C8 amended: a run that ends with a fatal error has not completed the CSV
\* file; when no record was collected, a record made derive raise or
\* write_markdown failed, the CSV file is untouched and the Markdown file is
\* not complete (untouched unless its write failed); when write_csv failed,
\* the complete Markdown file written before stays in place.
C8_FatalRunLeavesNoCompleteCsv ==
    (pc = "done" /\ exitCode = 1) =>
        /\ csvFile.state # "complete"
        /\ ~Raised({"csv_open_raised", "csv_write_raised"}) =>
              /\ csvFile = Untouched
              /\ mdFile.state # "complete"
              /\ ~Raised({"md_write_raised"}) => mdFile = Untouched
        /\ Raised({"csv_open_raised", "csv_write_raised"}) =>
              /\ mdFile = Written(md_lines(derived), Len(md_lines(derived)))
              /\ ~Raised({"md_open_raised", "md_write_raised"})
              /\ Raised({"csv_open_raised"}) => csvFile = Untouched

C8_Witness ==
    /\ pc = "done" /\ exitCode = 1
    /\ Raised({"csv_write_raised"})
    /\ mdFile.state = "complete"
    /\ csvFile.state = "partial" /\ Len(csvFile.content) >= 2

\* C9: t_total_ms is the value under "__total__" when TimingsUS holds that
\* key, whatever the other phases, and the sum of all the values of
\* TimingsUS otherwise; t_norm_ms is the value of buildFparLinfChain, or 0;
\* both in milliseconds.  {buildFparLinfChain: 2000, other: 500} gives 2.5
\* and 2.0.
C9_TotalAndNormDurations ==
    LET t == rows[1].TimingsUS
        d == derived[1]
    IN  pc = "write_md" =>
            /\ Has(t, TotalKey) => IsMs(d.t_total_ms, t.m[TotalKey])
            /\ (t.kind = "map" /\ ~Has(t, TotalKey)) =>
                  IsMs(d.t_total_ms, SumOver(t.m, DOMAIN t.m))
            /\ Has(t, NormPhaseKey) => IsMs(d.t_norm_ms, t.m[NormPhaseKey])
            /\ ~Has(t, NormPhaseKey) => IsMs(d.t_norm_ms, 0)
            /\ t = ExampleTimings =>
                  /\ d.t_total_ms = [whole |-> 2, frac |-> 500]
                  /\ d.t_norm_ms = [whole |-> 2, frac |-> 0]

C9_Witness ==
    /\ pc = "write_md"
    /\ Has(rows[1].TimingsUS, TotalKey)
    /\ Has(rows[1].TimingsUS, NormPhaseKey)
    /\ Has(rows[1].TimingsUS, "other")
    /\ rows[1].TimingsUS.m[TotalKey] = 500
    /\ rows[1].TimingsUS.m[NormPhaseKey] = 2000
    /\ derived[1].t_total_ms = [whole |-> 0, frac |-> 500]

\* the keys of the model that begin with "piop/Fpar/" and "piop/witness/"
C10_FparKeys == {FparCoreKey, FparNormKey, <<"piop", "Fpar", "merkle">>}
C10_WitnessKeys == {WitnessMKey, WitnessDKey, <<"piop", "witness", "w1">>}

\* the value of key k in group g, 0 when absent
C10_At(g, k) == IF Has(g, k) THEN g.m[k] ELSE 0

\* C10: size_fpar_total is the sum over the keys beginning with "piop/Fpar/",
\* size_witness_total the sum over the keys beginning with "piop/witness/",
\* size_total_bytes the sum over every key; size_fpar_core, size_fpar_norm
\* are the values of "piop/Fpar/core" and "piop/Fpar/linf_chain" and
\* size_witness_norm the sum of "piop/witness/linf_chain/M" and ".../D";
\* absent keys count 0.  The example gives 150, 15 and 165.
C10_SizeAggregates ==
    LET z == rows[1].SizesB
        d == derived[1]
        At == [k \in SizeKeys |-> C10_At(z, k)]
    IN  pc = "write_md" =>
            /\ d.size_fpar_total = SumOver(At, C10_FparKeys)
            /\ d.size_witness_total = SumOver(At, C10_WitnessKeys)
            /\ d.size_total_bytes = SumOver(At, SizeKeys)
            /\ d.size_fpar_core = At[FparCoreKey]
            /\ d.size_fpar_norm = At[FparNormKey]
            /\ d.size_witness_norm = At[WitnessMKey] + At[WitnessDKey]
            /\ z = ExampleSizes =>
                  /\ d.size_fpar_total = 150
                  /\ d.size_witness_total = 15
                  /\ d.size_total_bytes = 165

C10_Witness ==
    /\ pc = "write_md"
    /\ \A k \in SizeKeys : Has(rows[1].SizesB, k)
    /\ rows[1].SizesB.m[FparCoreKey] # rows[1].SizesB.m[FparNormKey]
    /\ derived[1].size_total_bytes > derived[1].size_fpar_total
                                       + derived[1].size_witness_total

====
